---- MODULE Spec2Model ----
(***************************************************************************)
(* A model of the file-exchange server (SERVER.py) and of the framing and  *)
(* transfer routines it shares with the client (CLIENT.py).                *)
(*                                                                         *)
(* Spec      : the server.  One handler thread per accepted connection,    *)
(*             stepping through handle_client / register_client /          *)
(*             send_file / store_file / get_dir; a step is a run of        *)
(*             statements that touches the shared list `registers` or the  *)
(*             storage directory at most once.  The peer is an arbitrary   *)
(*             TCP peer; each recv of the handler returns one message of   *)
(*             the peer's choosing.                                        *)
(* SpecOne   : the same handler for one connection, with every opcode and  *)
(*             both ways a peer can go away; FairOne adds the scheduling   *)
(*             of the handler thread.                                      *)
(* SpecFrame : one frame (encode_to_bytes + payload) written to a byte     *)
(*             stream and read back by recv_data, read by read.            *)
(* SpecTransfer : a file sent by send_file and stored by store_file, up    *)
(*             to the server and back down to the client, read by read.    *)
(* SpecStore, SpecIso, SpecRace, SpecShare : the handler with path         *)
(*             filenames; two handlers that end in every way; two that     *)
(*             fetch and store one file; two that store under two names    *)
(*             of one file.                                                *)
(* SpecRequest : the opcode token and the frame of its argument on a byte  *)
(*             stream, read by read.                                       *)
(* SpecClient : handle_commands and execute_command of CLIENT.py, a        *)
(*             command a step.                                             *)
(* SpecSession : the client on one connection and its handler, write by    *)
(*             write and read by read; FairSession adds the scheduling.    *)
(* Text is a sequence of one-character strings; bytes likewise.            *)
(***************************************************************************)
EXTENDS Integers, Sequences, FiniteSets, TLC

(* ------------------------------ bounds -------------------------------- *)
\* connections the listener hands to handler threads at the same time
MaxConn == 2
\* BUFFER of SERVER.py:8 / CLIENT.py:13 (1024 there): header width and chunk
\* size, scaled down so that every split of a stream can be enumerated
BUFFER == 4
\* longest handle / filename / file a peer sends in Spec
MaxName == 1
MaxFile == 2

(* ------------------------------ text ---------------------------------- *)
Digits == <<"0", "1", "2", "3", "4", "5", "6", "7", "8", "9">>

IsDigit(ch) == \E d \in 1..10 : Digits[d] = ch

DigitVal(ch) == (CHOOSE d \in 1..10 : Digits[d] = ch) - 1

Min(a, b) == IF a < b THEN a ELSE b

\* Python's str(n) for an integer n
RECURSIVE StrNat(_)
StrNat(n) == IF n < 10 THEN <<Digits[n + 1]>>
             ELSE StrNat(n \div 10) \o <<Digits[(n % 10) + 1]>>

str(n) == IF n < 0 THEN <<"-">> \o StrNat(0 - n) ELSE StrNat(n)

\* s.ljust(w): s padded on the right with spaces to width w, never cut
ljust(s, w) == s \o [i \in 1..(IF Len(s) < w THEN w - Len(s) ELSE 0) |-> " "]

\* s.strip() as int() applies it: leading and trailing blanks dropped
Strip(s) ==
    LET keep == {i \in 1..Len(s) : s[i] # " "}
    IN  IF keep = {} THEN <<>>
        ELSE LET lo == CHOOSE i \in keep : \A j \in keep : i <= j
                 hi == CHOOSE i \in keep : \A j \in keep : j <= i
             IN  SubSeq(s, lo, hi)

RECURSIVE DigitsVal(_)
DigitsVal(s) == IF s = <<>> THEN 0
                ELSE 10 * DigitsVal(SubSeq(s, 1, Len(s) - 1)) + DigitVal(s[Len(s)])

AllDigits(s) == s # <<>> /\ \A i \in 1..Len(s) : IsDigit(s[i])

\* Python's int(text): [ok |-> FALSE] stands for ValueError
int(text) ==
    LET t == Strip(text)
        neg == t # <<>> /\ t[1] = "-"
        body == IF t # <<>> /\ t[1] \in {"-", "+"} THEN Tail(t) ELSE t
    IN  IF AllDigits(body)
        THEN [ok |-> TRUE, val |-> IF neg THEN 0 - DigitsVal(body) ELSE DigitsVal(body)]
        ELSE [ok |-> FALSE, val |-> 0]

\* UTF-8: the one non-ASCII character of the model takes two bytes
Utf8Char(ch) == IF ch = "eacute" THEN <<"C3", "A9">> ELSE <<ch>>

RECURSIVE encode(_)
encode(s) == IF s = <<>> THEN <<>> ELSE Utf8Char(Head(s)) \o encode(Tail(s))

\* bytes.decode("utf-8"): [ok |-> FALSE] stands for UnicodeDecodeError
RECURSIVE decode(_)
decode(b) ==
    IF b = <<>> THEN [ok |-> TRUE, val |-> <<>>]
    ELSE IF b[1] = "C3"
         THEN IF Len(b) >= 2 /\ b[2] = "A9"
              THEN LET r == decode(SubSeq(b, 3, Len(b)))
                   IN  [ok |-> r.ok, val |-> <<"eacute">> \o r.val]
              ELSE [ok |-> FALSE, val |-> <<>>]
         ELSE IF b[1] = "A9" THEN [ok |-> FALSE, val |-> <<>>]
         ELSE LET r == decode(Tail(b))
              IN  [ok |-> r.ok, val |-> <<b[1]>> \o r.val]

\* encode_to_bytes(data): the header written ahead of data.encode(FORMAT)
encode_to_bytes(data) == ljust(encode(str(Len(data))), BUFFER)


(* ------------------------- the server: state -------------------------- *)
VARIABLES
    registers,   \* SERVER.py:13, the list of active handles
    files,       \* the storage directory: filename -> bytes, for the files that exist
    pc,          \* per connection: where its handler thread stands
    reg,         \* per connection: handle_client's local reg
    peer,        \* per connection: "open", "eof" (peer closed, FIN) or "rst" (reset)
    data,        \* per connection: the decoded frame payload of the current request
    filesize,    \* per connection: store_file's filesize
    received,    \* per connection: store_file's received
    fpos,        \* per connection: read position of send_file's file object
    ev           \* the socket traffic of the last step: who, what it read, what it wrote

server == <<registers, files, pc, reg, peer, data, filesize, received, fpos, ev>>

(* --------------------- one frame on a byte stream --------------------- *)
VARIABLES
    f_text,      \* the text framed (handle, filename, listing, response)
    f_wire,      \* the bytes written and not yet read
    f_wr,        \* the writer: "header", "payload", "done"
    f_rd,        \* the reader, in recv_data: "header", "payload", "done", "error"
    f_len,       \* recv_data's data_length
    f_data,      \* what recv_data returned
    f_op,        \* the opcode token written ahead of the frame, "" when there is none
    f_req        \* what the read of line 150 of SERVER.py returned

frame == <<f_text, f_wire, f_wr, f_rd, f_len, f_data, f_op, f_req>>

(* ------------------ one upload and the download of it ----------------- *)
VARIABLES
    src_file,    \* the client's file, which /store uploads
    srv_file,    \* the file in the server's directory
    dst_file,    \* the file /get writes at the client
    up,          \* the stream client -> server: bytes written and not yet read
    down,        \* the stream server -> client
    cl,          \* the client: where in send_file, then store_file, it stands
    sv,          \* the server: where in store_file, then send_file, it stands
    cl_pos,      \* client send_file: read position in src_file
    sv_size,     \* server store_file: filesize
    sv_got,      \* server store_file: received
    sv_pos,      \* server send_file: read position in srv_file
    cl_size,     \* client store_file: filesize
    cl_got       \* client store_file: received

transfer == <<src_file, srv_file, dst_file, up, down, cl, sv, cl_pos, sv_size, sv_got,
              sv_pos, cl_size, cl_got>>

(* ------------------------- the client: state -------------------------- *)
VARIABLES
    active,      \* handle_commands' active
    c_reg,       \* handle_commands' reg
    c_conn,      \* the number of connections the client has open
    c_ev         \* the last command and what it wrote to the socket

client == <<active, c_reg, c_conn, c_ev>>

vars == <<server, frame, transfer, client>>

Conns == 1..MaxConn

\* Python's None, kept apart from every text
None == <<"None">>

Chars == {"a", "b"}

\* texts of at most n characters
Texts(n) == UNION {[1..k -> Chars] : k \in 0..n}

\* what a peer may write where the handler expects an opcode: any of these
\* (PeerOpcodes), or only those that concern the handle registry (RegistryOpcodes)
Opcodes == {"/register", "/store", "/get", "/dir", "/leave"}
PeerOpcodes == Opcodes \cup {"/bogus", "undecodable"}
RegistryOpcodes == {"/register", "/leave"}

\* what a peer may write where the handler expects a frame header, a frame
\* payload, an upload size header, a chunk of file bytes
PeerHeaders == {ljust(str(n), BUFFER) : n \in 0..MaxName} \cup {ljust(<<"-", "1">>, BUFFER), ljust(<<"x">>, BUFFER)}
PeerPayloads == (Texts(MaxName) \ {<<>>}) \cup {<<"C3">>}
PeerSizes == {ljust(str(n), BUFFER) : n \in 0..MaxFile} \cup {ljust(<<"-", "1">>, BUFFER), ljust(<<"x">>, BUFFER)}
PeerChunks == {<<"a">>, <<"a", "b">>}

\* the handles the peers of the registry model ask for, and the headers they
\* write: those of their handles and one that is no number
Handles == {<<"a">>, <<"b">>}
HandleHeaders == {ljust(str(Len(h)), BUFFER) : h \in Handles} \cup {ljust(<<"x">>, BUFFER)}

\* `if reg:` of line 175
Truthy(x) == x # None /\ x # <<>>

\* f"{reg}"
Format(x) == IF x = None THEN <<"N", "o", "n", "e">> ELSE x

\* sendall on a socket whose peer is gone fails at once (reset) or only later
SendOutcomes(c) == IF peer[c] = "open" THEN {TRUE}
                   ELSE IF peer[c] = "eof" THEN {TRUE, FALSE} ELSE {FALSE}

\* the file that os.path.join(DIRECTORY, name) names, as a path relative to
\* the storage directory: the file system skips the components "."
RECURSIVE Resolve(_)
Resolve(name) ==
    IF Len(name) >= 2 /\ name[1] = "." /\ name[2] = "/"
    THEN Resolve(SubSeq(name, 3, Len(name)))
    ELSE name

\* os.path.exists(os.path.join(DIRECTORY, name)): the empty name is the directory
Exists(name) == Resolve(name) = <<>> \/ Resolve(name) \in DOMAIN files

\* list.remove: the first occurrence goes
FirstIndex(s, x) == CHOOSE i \in 1..Len(s) : s[i] = x /\ \A j \in 1..(i - 1) : s[j] # x
RemoveAt(s, i) == SubSeq(s, 1, i - 1) \o SubSeq(s, i + 1, Len(s))
InList(x, s) == \E i \in 1..Len(s) : s[i] = x

Live(c) == pc[c] \notin {"closed", "dead"}

\* the traffic of a step of connection c: the opcode and the header it read
\* ("" and <<>> when it read none) and the bytes it wrote; Quiet for a step
\* that read and wrote nothing
Event(c, op, header, bytes) == [conn |-> c, op |-> op, hdr |-> header, sent |-> bytes]
Quiet == Event(0, "", <<>>, <<>>)

ServerInit ==
    /\ registers = <<>>
    /\ files = <<>>
    /\ pc = [c \in Conns |-> "closed"]
    /\ reg = [c \in Conns |-> None]
    /\ peer = [c \in Conns |-> "open"]
    /\ data = [c \in Conns |-> <<>>]
    /\ filesize = [c \in Conns |-> 0]
    /\ received = [c \in Conns |-> 0]
    /\ fpos = [c \in Conns |-> 0]
    /\ ev = Quiet

\* no frame and no transfer under way
FrameIdle ==
    /\ f_text = <<>>
    /\ f_wire = <<>>
    /\ f_wr = "done"
    /\ f_rd = "done"
    /\ f_len = 0
    /\ f_data = <<>>
    /\ f_op = ""
    /\ f_req = <<>>

TransferIdle ==
    /\ src_file = <<>>
    /\ srv_file = <<>>
    /\ dst_file = <<>>
    /\ up = <<>>
    /\ down = <<>>
    /\ cl = "done"
    /\ sv = "done"
    /\ cl_pos = 0
    /\ sv_size = 0
    /\ sv_got = 0
    /\ sv_pos = 0
    /\ cl_size = 0
    /\ cl_got = 0

\* handle_commands line 261
ClientInit ==
    /\ active = FALSE
    /\ c_reg = None
    /\ c_conn = 0
    /\ c_ev = [cmd |-> <<>>, wrote |-> <<>>]

Init == ServerInit /\ FrameIdle /\ TransferIdle /\ ClientInit

\* the locals of a request, dropped when the request is over
Locals(c, d, size, got, pos) ==
    /\ data' = [data EXCEPT ![c] = d]
    /\ filesize' = [filesize EXCEPT ![c] = size]
    /\ received' = [received EXCEPT ![c] = got]
    /\ fpos' = [fpos EXCEPT ![c] = pos]

\* on to `target`, the request's locals kept when it is a step of the same
\* request and dropped when it is line 150 again or the loop's exit
Goto(c, target) ==
    /\ pc' = [pc EXCEPT ![c] = target]
    /\ IF target \in {"recv_op", "exit", "leave", "dead"}
       THEN Locals(c, <<>>, 0, 0, 0)
       ELSE UNCHANGED <<data, filesize, received, fpos>>

(* ------------------------ the server: actions ------------------------- *)
\* __main__, lines 191-197, and handle_client line 145
Accept(c) ==
    /\ pc[c] = "closed"
    /\ pc' = [pc EXCEPT ![c] = "recv_op"]
    /\ reg' = [reg EXCEPT ![c] = None]
    /\ peer' = [peer EXCEPT ![c] = "open"]
    /\ ev' = Quiet
    /\ UNCHANGED <<registers, files, data, filesize, received, fpos>>
    /\ UNCHANGED <<frame, transfer, client>>

\* the peer closes its end, in order (FIN, "eof") or abruptly (RST, "rst")
PeerClose(c, kinds) ==
    /\ Live(c)
    /\ peer[c] = "open"
    /\ \E how \in kinds : peer' = [peer EXCEPT ![c] = how]
    /\ ev' = Quiet
    /\ UNCHANGED <<registers, files, pc, reg, data, filesize, received, fpos>>
    /\ UNCHANGED <<frame, transfer, client>>

\* what recv_data (lines 40-41) makes of the header `text`: int() of a text
\* that is no integer and recv() of a negative count raise ValueError
HeaderOk(text) ==
    LET d == decode(text)
        n == int(d.val)
    IN  d.ok /\ n.ok /\ n.val >= 0

\* the target of `match request` (lines 158-164); an opcode that matches no
\* case falls out of the match and the loop goes on
MatchTarget(op) ==
    CASE op = "/register" -> "reg_check"
      [] op = "/get" -> "get_stat"
      [] op = "/store" -> "store_size"
      [] op = "/dir" -> "dir"
      [] op = "/leave" -> "leave"
      [] OTHER -> "recv_op"

\* the payloads recv(data_length) may return (line 41): at most data_length
\* bytes of what the peer wrote, nothing when data_length is 0
PayloadsFor(payloads, data_length) == IF data_length = 0 THEN {<<>>}
                                      ELSE {p \in payloads : Len(p) <= data_length}

\* handle_client lines 150-164: the opcode (line 150), for every opcode but
\* /dir and /leave the frame that follows it (recv_data), and the match with
\* the decode of the argument.  The peer may be gone at any of the reads: a
\* read at end of stream returns b"", a read on a reset connection raises.
\* `ops`, `headers` and `payloads` are what the peer may write as opcode, as
\* header and as payload.
ReadRequest(c, ops, headers, payloads) ==
    /\ pc[c] = "recv_op"
    /\ \/ /\ peer[c] = "open"
          /\ \E op \in ops :
                IF op = "undecodable"
                THEN /\ Goto(c, "exit")
                     /\ ev' = Event(c, op, <<>>, <<>>)
                ELSE IF op \in {"/dir", "/leave"}
                THEN /\ Goto(c, MatchTarget(op))
                     /\ ev' = Event(c, op, <<>>, <<>>)
                ELSE \E text \in headers :
                       /\ ev' = Event(c, op, text, <<>>)
                       /\ IF ~HeaderOk(text)
                          THEN Goto(c, "exit")
                          ELSE \E p \in PayloadsFor(payloads, int(text).val) :
                                 IF op \in {"/register", "/get", "/store"}
                                 THEN IF decode(p).ok
                                      THEN /\ pc' = [pc EXCEPT ![c] = MatchTarget(op)]
                                           /\ Locals(c, decode(p).val, 0, 0, 0)
                                      ELSE Goto(c, "exit")
                                 ELSE Goto(c, MatchTarget(op))
       \/ /\ peer[c] # "open"
          /\ Goto(c, "exit")
          /\ ev' = Quiet
    /\ UNCHANGED <<registers, files, reg, peer>>
    /\ UNCHANGED <<frame, transfer, client>>

\* a variant of lines 129-132 and 159 in which a refused registration leaves
\* the session's previous handle in place; C4 has to tell it from the code
RegCheckKeepsHandle(c) ==
    /\ pc[c] = "reg_check"
    /\ IF InList(data[c], registers)
       THEN \E ok \in SendOutcomes(c) :
              IF ok THEN /\ ev' = Event(c, "", <<>>, <<"0">>)
                         /\ Goto(c, "recv_op")
                    ELSE /\ ev' = Quiet
                         /\ Goto(c, "exit")
       ELSE /\ Goto(c, "reg_insert")
            /\ ev' = Quiet
    /\ UNCHANGED <<registers, files, reg, peer>>
    /\ UNCHANGED <<frame, transfer, client>>

\* register_client lines 129-132 (and line 159 for the duplicate)
RegCheck(c) ==
    /\ pc[c] = "reg_check"
    /\ IF InList(data[c], registers)
       THEN \E ok \in SendOutcomes(c) :
              IF ok THEN /\ ev' = Event(c, "", <<>>, <<"0">>)
                         /\ reg' = [reg EXCEPT ![c] = None]
                         /\ Goto(c, "recv_op")
                    ELSE /\ ev' = Quiet
                         /\ reg' = reg
                         /\ Goto(c, "exit")
       ELSE /\ Goto(c, "reg_insert")
            /\ ev' = Quiet
            /\ reg' = reg
    /\ UNCHANGED <<registers, files, peer>>
    /\ UNCHANGED <<frame, transfer, client>>

\* an insert that leaves the list alone when it holds the handle already;
\* C26 has to tell it from the append of line 135
RegInsertOnce(c) ==
    /\ pc[c] = "reg_insert"
    /\ registers' = IF InList(data[c], registers) THEN registers ELSE Append(registers, data[c])
    /\ Goto(c, "reg_send")
    /\ ev' = Quiet
    /\ UNCHANGED <<files, reg, peer>>
    /\ UNCHANGED <<frame, transfer, client>>

\* register_client line 135
RegInsert(c) ==
    /\ pc[c] = "reg_insert"
    /\ registers' = Append(registers, data[c])
    /\ Goto(c, "reg_send")
    /\ ev' = Quiet
    /\ UNCHANGED <<files, reg, peer>>
    /\ UNCHANGED <<frame, transfer, client>>

\* register_client lines 140-142 and the assignment of line 159
RegSend(c) ==
    /\ pc[c] = "reg_send"
    /\ \E ok \in SendOutcomes(c) :
          IF ok THEN /\ ev' = Event(c, "", <<>>, <<"1">>)
                     /\ reg' = [reg EXCEPT ![c] = data[c]]
                     /\ Goto(c, "recv_op")
                ELSE /\ ev' = Quiet
                     /\ reg' = reg
                     /\ Goto(c, "exit")
    /\ UNCHANGED <<registers, files, peer>>
    /\ UNCHANGED <<frame, transfer, client>>

\* os.path.getsize of the storage directory itself: the platform's value
DirSizes == {0, 4096}

\* send_file lines 51-59 and 65-67
GetStat(c) ==
    /\ pc[c] = "get_stat"
    /\ \E ok \in SendOutcomes(c) :
          IF ~ok THEN /\ Goto(c, "exit")
                      /\ ev' = Quiet
          ELSE IF Exists(data[c])
          THEN \E file_size \in (IF Resolve(data[c]) = <<>> THEN DirSizes ELSE {Len(files[Resolve(data[c])])}) :
                  /\ ev' = Event(c, "", <<>>, <<"1">> \o encode(ljust(str(file_size), BUFFER)))
                  /\ pc' = [pc EXCEPT ![c] = "get_read"]
                  /\ Locals(c, data[c], file_size, 0, 0)
          ELSE /\ ev' = Event(c, "", <<>>, <<"0">>)
               /\ Goto(c, "recv_op")
    /\ UNCHANGED <<registers, files, reg, peer>>
    /\ UNCHANGED <<frame, transfer, client>>

\* send_file lines 61-64: open, then one f.read(BUFFER) and its sendall per
\* step; opening the directory raises IsADirectoryError, which nothing catches
GetRead(c) ==
    /\ pc[c] = "get_read"
    /\ IF Resolve(data[c]) = <<>>
       THEN /\ Goto(c, "dead")
            /\ ev' = Quiet
       ELSE LET content == files[Resolve(data[c])]
                bytes_read == SubSeq(content, fpos[c] + 1, Min(fpos[c] + BUFFER, Len(content)))
            IN  IF bytes_read = <<>>
                THEN /\ Goto(c, "recv_op")
                     /\ ev' = Quiet
                ELSE \E ok \in SendOutcomes(c) :
                       IF ok THEN /\ ev' = Event(c, "", <<>>, bytes_read)
                                  /\ fpos' = [fpos EXCEPT ![c] = fpos[c] + Len(bytes_read)]
                                  /\ UNCHANGED <<pc, data, filesize, received>>
                             ELSE /\ Goto(c, "exit")
                                  /\ ev' = Quiet
    /\ UNCHANGED <<registers, files, reg, peer>>
    /\ UNCHANGED <<frame, transfer, client>>

\* a frame: encode_to_bytes(text) and text.encode(FORMAT), two sendalls
Frame(text) == encode_to_bytes(text) \o encode(text)

\* store_file line 96, the timestamp shortened to <T>
Uploaded(r, filename) ==
    Format(r) \o <<"<", "T", ">", ":", "\n", "U", "p", "l", "o", "a", "d", "e", "d", "\n">> \o filename

\* store_file line 102
Aborted == <<"E", "r", "r", "o", "r", ":", " ", "F", "i", "l", "e", " ", "r", "e", "c", "e",
             "i", "v", "i", "n", "g", " ", "a", "b", "o", "r", "t", "e", "d", ".">>

\* what store_file makes of the size header `text` (line 81, outside its
\* try): int() of a text that is no integer raises ValueError
SizeOk(text) ==
    LET d == decode(text)
    IN  d.ok /\ int(d.val).ok

\* store_file lines 78-81
StoreSize(c) ==
    /\ pc[c] = "store_size"
    /\ \/ /\ peer[c] = "open"
          /\ \E text \in PeerSizes :
                /\ ev' = Event(c, "", text, <<>>)
                /\ IF SizeOk(text)
                   THEN /\ pc' = [pc EXCEPT ![c] = "store_open"]
                        /\ Locals(c, data[c], int(text).val, 0, 0)
                   ELSE Goto(c, "exit")
       \/ /\ peer[c] # "open"
          /\ ev' = Quiet
          /\ Goto(c, "exit")
    /\ UNCHANGED <<registers, files, reg, peer>>
    /\ UNCHANGED <<frame, transfer, client>>

\* store_file line 84: open(filepath, "wb") creates or truncates the file; on
\* the directory, or when the file system refuses, it raises inside the try
StoreOpen(c) ==
    /\ pc[c] = "store_open"
    /\ \/ /\ Resolve(data[c]) # <<>>
          /\ files' = (Resolve(data[c]) :> <<>>) @@ files
          /\ Goto(c, IF 0 < filesize[c] THEN "store_loop" ELSE "store_resp")
       \/ /\ files' = files
          /\ Goto(c, "store_err")
    /\ ev' = Quiet
    /\ UNCHANGED <<registers, reg, peer>>
    /\ UNCHANGED <<frame, transfer, client>>

\* store_file lines 85-92, one pass of the loop: a recv of at most BUFFER
\* bytes and the write of what it returned.  At end of stream recv returns
\* b"" and the pass changes nothing.
StoreLoop(c) ==
    /\ pc[c] = "store_loop"
    /\ \/ /\ peer[c] = "open"
          /\ \E bytes_read \in PeerChunks :
                /\ Len(bytes_read) <= BUFFER
                /\ \/ /\ files' = [files EXCEPT ![Resolve(data[c])] = @ \o bytes_read]
                      /\ IF received[c] + Len(bytes_read) < filesize[c]
                         THEN /\ received' = [received EXCEPT ![c] = received[c] + Len(bytes_read)]
                              /\ UNCHANGED <<pc, data, filesize, fpos>>
                         ELSE /\ pc' = [pc EXCEPT ![c] = "store_resp"]
                              /\ Locals(c, data[c], 0, 0, 0)
                   \/ /\ files' = files
                      /\ Goto(c, "store_err")
       \/ /\ peer[c] = "eof"
          /\ UNCHANGED <<received, files, pc, data, filesize, fpos>>
       \/ /\ peer[c] = "rst"
          /\ files' = files
          /\ Goto(c, "store_err")
    /\ ev' = Quiet
    /\ UNCHANGED <<registers, reg, peer>>
    /\ UNCHANGED <<frame, transfer, client>>

\* store_file lines 95-98, still inside the try
StoreResp(c) ==
    /\ pc[c] = "store_resp"
    /\ \E ok \in SendOutcomes(c) :
          IF ok THEN /\ ev' = Event(c, "", <<>>, Frame(Uploaded(reg[c], data[c])))
                     /\ Goto(c, "recv_op")
                ELSE /\ ev' = Quiet
                     /\ Goto(c, "store_err")
    /\ UNCHANGED <<registers, files, reg, peer>>
    /\ UNCHANGED <<frame, transfer, client>>

\* store_file lines 100-104
StoreErr(c) ==
    /\ pc[c] = "store_err"
    /\ \E ok \in SendOutcomes(c) :
          IF ok THEN /\ ev' = Event(c, "", <<>>, Frame(Aborted))
                     /\ Goto(c, "recv_op")
                ELSE /\ ev' = Quiet
                     /\ Goto(c, "exit")
    /\ UNCHANGED <<registers, files, reg, peer>>
    /\ UNCHANGED <<frame, transfer, client>>

\* "\n".join(names) for the names in the order listdir returned them
RECURSIVE JoinLines(_)
JoinLines(names) ==
    IF names = <<>> THEN <<>>
    ELSE IF Len(names) = 1 THEN names[1]
    ELSE names[1] \o <<"\n">> \o JoinLines(Tail(names))

\* the orders in which os.listdir may return the set S of names
Listings(S) == {l \in [1..Cardinality(S) -> S] : \A i, j \in 1..Cardinality(S) : l[i] = l[j] => i = j}

\* os.listdir(DIRECTORY), line 113: of the paths the file system holds
\* relative to the storage directory, those that lie in it
StorageNames(fs) == {name \in DOMAIN fs : \A i \in 1..Len(name) : name[i] # "/"}

\* get_dir line 116
DirMessage(file_list) ==
    IF file_list # <<>>
    THEN <<"S", "e", "r", "v", "e", "r", " ", "D", "i", "r", "e", "c", "t", "o", "r", "y", "\n">>
         \o JoinLines(file_list)
    ELSE <<"S", "e", "r", "v", "e", "r", " ", "D", "i", "r", "e", "c", "t", "o", "r", "y",
           " ", "i", "s", " ", "e", "m", "p", "t", "y">>

\* get_dir lines 113-119
GetDir(c) ==
    /\ pc[c] = "dir"
    /\ \E ok \in SendOutcomes(c) :
          IF ok THEN /\ \E file_list \in Listings(StorageNames(files)) :
                           ev' = Event(c, "", <<>>, Frame(DirMessage(file_list)))
                     /\ Goto(c, "recv_op")
                ELSE /\ ev' = Quiet
                     /\ Goto(c, "exit")
    /\ UNCHANGED <<registers, files, reg, peer>>
    /\ UNCHANGED <<frame, transfer, client>>

\* an exit of the loop that empties the shared list instead of removing the
\* handler's own handle; C17 has to tell it from the code
ExitClearsRegistry(c) ==
    /\ pc[c] \in {"exit", "leave"}
    /\ registers' = <<>>
    /\ pc' = [pc EXCEPT ![c] = "closed"]
    /\ reg' = [reg EXCEPT ![c] = None]
    /\ ev' = Quiet
    /\ UNCHANGED <<files, peer, data, filesize, received, fpos>>
    /\ UNCHANGED <<frame, transfer, client>>

\* handle_client lines 174-179: registers.remove(reg) raises ValueError, which
\* ends the thread before close(), when reg is not in the list.  Entered at
\* "leave" by the break of line 164 and at "exit" by those of lines 168, 172.
Exit(c) ==
    /\ pc[c] \in {"exit", "leave"}
    /\ IF Truthy(reg[c])
       THEN IF InList(reg[c], registers)
            THEN /\ registers' = RemoveAt(registers, FirstIndex(registers, reg[c]))
                 /\ pc' = [pc EXCEPT ![c] = "closed"]
                 /\ reg' = [reg EXCEPT ![c] = None]
            ELSE /\ pc' = [pc EXCEPT ![c] = "dead"]
                 /\ UNCHANGED <<registers, reg>>
       ELSE /\ pc' = [pc EXCEPT ![c] = "closed"]
            /\ reg' = [reg EXCEPT ![c] = None]
            /\ registers' = registers
    /\ ev' = Quiet
    /\ UNCHANGED <<files, peer, data, filesize, received, fpos>>
    /\ UNCHANGED <<frame, transfer, client>>

\* the steps of the handler of connection c: those of /register and of the
\* loop's exit, and those of /get, /store and /dir
Requests(c) ==
    \/ RegCheck(c) \/ RegInsert(c) \/ RegSend(c)
    \/ Exit(c)

Transfers(c) ==
    \/ GetStat(c) \/ GetRead(c)
    \/ StoreSize(c) \/ StoreOpen(c) \/ StoreLoop(c) \/ StoreResp(c) \/ StoreErr(c)
    \/ GetDir(c)

\* The server with MaxConn connections at a time whose peers register
\* non-empty handles and leave, and close in order.
Next ==
    \E c \in Conns :
        \/ Accept(c)
        \/ PeerClose(c, {"eof"})
        \/ ReadRequest(c, RegistryOpcodes, HandleHeaders, Handles)
        \/ Requests(c)

Spec == Init /\ [][Next]_vars

\* The server with one connection at a time whose peer writes any opcode.
NextOne ==
    \/ Accept(1)
    \/ PeerClose(1, {"eof", "rst"})
    \/ ReadRequest(1, PeerOpcodes, PeerHeaders, PeerPayloads)
    \/ Requests(1)
    \/ Transfers(1)

SpecOne == Init /\ [][NextOne]_vars

\* one connection that stores, fetches and lists, with filenames that are a
\* name, a path out of the storage directory, and the empty name
StoreOpcodes == {"/store", "/get", "/dir"}
StorePayloads == {<<"a">>, <<".", ".", "/", "a">>}
StoreHeaders == {ljust(str(Len(p)), BUFFER) : p \in StorePayloads \cup {<<>>}}

NextStore ==
    \/ Accept(1)
    \/ ReadRequest(1, StoreOpcodes, StoreHeaders, StorePayloads)
    \/ Transfers(1)
    \/ Exit(1)

SpecStore == Init /\ [][NextStore]_vars

\* Two connections whose handlers end in every way a handler can end: by
\* /leave, by the peer closing in order (ValueError at line 40) or abruptly
\* (ConnectionError), and by /get of the empty name, which is the storage
\* directory itself and ends the thread with an error nothing catches.
IsoConns == {1, 2}
IsoOpcodes == {"/register", "/leave", "/get"}
IsoPayloads == {<<"a">>}
IsoHeaders == {ljust(str(Len(p)), BUFFER) : p \in IsoPayloads \cup {<<>>}}

NextIso ==
    \E c \in IsoConns :
        \/ Accept(c)
        \/ PeerClose(c, {"eof", "rst"})
        \/ ReadRequest(c, IsoOpcodes, IsoHeaders, IsoPayloads)
        \/ Requests(c)
        \/ GetStat(c) \/ GetRead(c)

SpecIso == Init /\ [][NextIso]_vars

\* Two connections that store and fetch the file "a", each at its own pace.
RaceConns == {1, 2}
RaceOpcodes == {"/store", "/get"}
RacePayloads == {<<"a">>}
RaceHeaders == {ljust(str(Len(p)), BUFFER) : p \in RacePayloads}

NextRace ==
    \E c \in RaceConns :
        \/ Accept(c)
        \/ ReadRequest(c, RaceOpcodes, RaceHeaders, RacePayloads)
        \/ GetStat(c) \/ GetRead(c)
        \/ StoreSize(c) \/ StoreOpen(c) \/ StoreLoop(c) \/ StoreResp(c) \/ StoreErr(c)
        \/ Exit(c)

SpecRace == Init /\ [][NextRace]_vars

\* Two connections that store, fetch and list under the name "a" and under
\* "./a", another name of the same file.
ShareConns == {1, 2}
SharePayloads == {<<"a">>, <<".", "/", "a">>}
ShareHeaders == {ljust(str(Len(p)), BUFFER) : p \in SharePayloads}

NextShare ==
    \E c \in ShareConns :
        \/ Accept(c)
        \/ ReadRequest(c, StoreOpcodes, ShareHeaders, SharePayloads)
        \/ Transfers(c)
        \/ Exit(c)

SpecShare == Init /\ [][NextShare]_vars

\* SpecOne with the handler thread scheduled as long as it can take a step
FairOne == SpecOne /\ WF_vars(ReadRequest(1, PeerOpcodes, PeerHeaders, PeerPayloads) \/ Requests(1) \/ Transfers(1))

(* ------------------- one frame on a byte stream ----------------------- *)
\* longest text put in a frame
MaxText == 2

\* a character that takes one byte and one that takes two
FrameChars == {"a", "eacute"}
FrameTexts == UNION {[1..k -> FrameChars] : k \in 0..MaxText}

\* what socket.recv(n) may return of the bytes that have arrived: the first k
RecvSplits(wire, n) == 1..Min(n, Len(wire))
Take(wire, k) == SubSeq(wire, 1, k)
Drop(wire, k) == SubSeq(wire, k + 1, Len(wire))

\* the writer's first sendall: sendall(encode_to_bytes(text))
SendHeader(text) ==
    /\ f_wr = "done" /\ f_rd = "done" /\ f_wire = <<>>
    /\ f_text' = text
    /\ f_wire' = encode_to_bytes(text)
    /\ f_wr' = "payload"
    /\ f_rd' = "header"
    /\ f_len' = 0
    /\ f_data' = <<>>
    /\ UNCHANGED <<f_op, f_req>>
    /\ UNCHANGED <<server, transfer, client>>

\* the writer's second sendall: sendall(text.encode(FORMAT))
SendPayload ==
    /\ f_wr = "payload"
    /\ f_wire' = f_wire \o encode(f_text)
    /\ f_wr' = "done"
    /\ UNCHANGED <<f_text, f_rd, f_len, f_data, f_op, f_req>>
    /\ UNCHANGED <<server, transfer, client>>

\* recv_data, first line: data_length = int(recv(BUFFER).decode(FORMAT))
RecvHeader ==
    /\ f_rd = "header"
    /\ \E k \in RecvSplits(f_wire, BUFFER) :
          LET text == decode(Take(f_wire, k))
              length == IF text.ok THEN int(text.val) ELSE [ok |-> FALSE, val |-> 0]
          IN  /\ f_wire' = Drop(f_wire, k)
              /\ IF length.ok /\ length.val >= 0
                 THEN f_len' = length.val /\ f_rd' = "payload"
                 ELSE f_len' = 0 /\ f_rd' = "failed"
    /\ UNCHANGED <<f_text, f_wr, f_data, f_op, f_req>>
    /\ UNCHANGED <<server, transfer, client>>

\* recv_data, second line: return recv(data_length)
RecvPayload ==
    /\ f_rd = "payload"
    /\ IF f_len = 0
       THEN f_data' = <<>> /\ f_wire' = f_wire
       ELSE \E k \in RecvSplits(f_wire, f_len) :
               /\ f_data' = Take(f_wire, k)
               /\ f_wire' = Drop(f_wire, k)
    /\ f_rd' = "done"
    /\ UNCHANGED <<f_text, f_wr, f_len, f_op, f_req>>
    /\ UNCHANGED <<server, transfer, client>>

NextFrame ==
    \/ \E text \in FrameTexts : SendHeader(text)
    \/ SendPayload
    \/ RecvHeader
    \/ RecvPayload

SpecFrame == Init /\ [][NextFrame]_vars

\* One request on a byte stream: the opcode token, written unframed, and the
\* frame of its argument.  A token is far shorter than BUFFER and counts as
\* one unit of the stream.
\* CLIENT.py execute_command line 172 (208, 231, 242, 248): sendall(command)
SendOpcode(op, text) ==
    /\ f_wr = "done" /\ f_rd = "done" /\ f_wire = <<>>
    /\ op \in {"/dir", "/leave"} => text = <<>>
    /\ f_op' = op
    /\ f_text' = text
    /\ f_wire' = <<op>>
    /\ f_wr' = IF op \in {"/dir", "/leave"} THEN "done" ELSE "header"
    /\ f_rd' = "opcode"
    /\ f_req' = <<>>
    /\ f_len' = 0
    /\ f_data' = <<>>
    /\ UNCHANGED <<server, transfer, client>>

\* CLIENT.py line 173 (209, 232): sendall(encode_to_bytes(arg)); line 174 is
\* SendPayload
SendArgHeader ==
    /\ f_wr = "header"
    /\ f_wire' = f_wire \o encode_to_bytes(f_text)
    /\ f_wr' = "payload"
    /\ UNCHANGED <<f_text, f_rd, f_len, f_data, f_op, f_req>>
    /\ UNCHANGED <<server, transfer, client>>

\* SERVER.py handle_client lines 150-153: request = recv(BUFFER), and
\* recv_data follows unless the request is /dir or /leave
RecvOpcode ==
    /\ f_rd = "opcode"
    /\ \E k \in RecvSplits(f_wire, BUFFER) :
          LET request == Take(f_wire, k)
          IN  /\ f_req' = request
              /\ f_wire' = Drop(f_wire, k)
              /\ f_rd' = IF request \in {<<"/dir">>, <<"/leave">>} THEN "done" ELSE "header"
    /\ UNCHANGED <<f_text, f_wr, f_len, f_data, f_op>>
    /\ UNCHANGED <<server, transfer, client>>

NextRequest ==
    \/ \E op \in Opcodes, text \in FrameTexts : SendOpcode(op, text)
    \/ SendArgHeader
    \/ SendPayload
    \/ RecvOpcode
    \/ RecvHeader
    \/ RecvPayload

SpecRequest == Init /\ [][NextRequest]_vars

(* ---------------- a file stored and fetched back ---------------------- *)
\* file contents of 0 .. BUFFER + 1 bytes
TransferFiles == Texts(BUFFER + 1)

\* the next chunk f.read(BUFFER) returns at offset pos
Chunk(file, pos) == SubSeq(file, pos + 1, Min(pos + BUFFER, Len(file)))

\* a size header as line 81 of SERVER.py and line 126 of CLIENT.py parse it
ParseSize(bytes) ==
    LET text == decode(bytes)
    IN  IF text.ok THEN int(text.val) ELSE [ok |-> FALSE, val |-> 0]

\* the user types /store f; execute_command has sent the opcode and the
\* filename frame and the server has dispatched to store_file
StartStore(content) ==
    /\ cl = "done" /\ sv \in {"done", "aborted"} /\ up = <<>> /\ down = <<>>
    /\ src_file' = content
    /\ srv_file' = <<>>
    /\ dst_file' = <<>>
    /\ cl' = "put_size"
    /\ sv' = "store_size"
    /\ cl_pos' = 0 /\ sv_size' = 0 /\ sv_got' = 0 /\ sv_pos' = 0 /\ cl_size' = 0 /\ cl_got' = 0
    /\ UNCHANGED <<up, down>>
    /\ UNCHANGED <<server, frame, client>>

\* what the client's directory holds under the name asked for: nothing, or a file
LocalBefore == {None, <<"b">>}

\* the user types /get f for a name the server's directory does not hold;
\* execute_command has sent the opcode and the filename frame (CLIENT.py
\* lines 231-235) and the server has dispatched to send_file
StartGet(local) ==
    /\ cl = "done" /\ sv \in {"done", "aborted"} /\ up = <<>> /\ down = <<>>
    /\ src_file' = <<>>
    /\ srv_file' = None
    /\ dst_file' = local
    /\ cl' = "get_status"
    /\ sv' = "get_stat"
    /\ cl_pos' = 0 /\ sv_size' = 0 /\ sv_got' = 0 /\ sv_pos' = 0 /\ cl_size' = 0 /\ cl_got' = 0
    /\ UNCHANGED <<up, down>>
    /\ UNCHANGED <<server, frame, client>>

\* CLIENT.py send_file lines 91-92
ClientSendSize ==
    /\ cl = "put_size"
    /\ up' = up \o encode(ljust(str(Len(src_file)), BUFFER))
    /\ cl' = "put_loop"
    /\ UNCHANGED <<src_file, srv_file, dst_file, down, sv, cl_pos, sv_size, sv_got, sv_pos, cl_size, cl_got>>
    /\ UNCHANGED <<server, frame, client>>

\* CLIENT.py send_file lines 98-101
ClientSendChunk ==
    /\ cl = "put_loop"
    /\ LET bytes_read == Chunk(src_file, cl_pos)
       IN  IF bytes_read # <<>>
           THEN /\ up' = up \o bytes_read
                /\ cl_pos' = cl_pos + Len(bytes_read)
                /\ cl' = cl
           ELSE /\ cl' = "put_resp"
                /\ UNCHANGED <<up, cl_pos>>
    /\ UNCHANGED <<src_file, srv_file, dst_file, down, sv, sv_size, sv_got, sv_pos, cl_size, cl_got>>
    /\ UNCHANGED <<server, frame, client>>

\* SERVER.py store_file line 81 and the open of line 84
ServerRecvSize ==
    /\ sv = "store_size"
    /\ \E k \in RecvSplits(up, BUFFER) :
          LET size == ParseSize(Take(up, k))
          IN  /\ up' = Drop(up, k)
              /\ IF size.ok
                 THEN sv_size' = size.val /\ sv' = "store_loop"
                 ELSE sv_size' = 0 /\ sv' = "failed"
    /\ srv_file' = <<>>
    /\ sv_got' = 0
    /\ UNCHANGED <<src_file, dst_file, down, cl, cl_pos, sv_pos, cl_size, cl_got>>
    /\ UNCHANGED <<server, frame, client>>

\* SERVER.py store_file lines 85-92
ServerRecvChunk ==
    /\ sv = "store_loop"
    /\ IF sv_got < sv_size
       THEN \E k \in RecvSplits(up, BUFFER) :
               /\ srv_file' = srv_file \o Take(up, k)
               /\ sv_got' = sv_got + k
               /\ up' = Drop(up, k)
               /\ sv' = sv
       ELSE /\ sv' = "store_resp"
            /\ UNCHANGED <<srv_file, sv_got, up>>
    /\ UNCHANGED <<src_file, dst_file, down, cl, cl_pos, sv_size, sv_pos, cl_size, cl_got>>
    /\ UNCHANGED <<server, frame, client>>

\* SERVER.py store_file: the open of line 84 (nothing received yet) or the
\* write of line 92 raises; the bytes of the failed write were taken off the
\* stream by the recv of line 87
ServerStoreFail ==
    /\ sv = "store_loop"
    /\ sv_got < sv_size
    /\ \/ UNCHANGED <<up, sv_got>>
       \/ \E k \in RecvSplits(up, BUFFER) :
             /\ up' = Drop(up, k)
             /\ sv_got' = sv_got + k
    /\ sv' = "store_err"
    /\ UNCHANGED <<src_file, srv_file, dst_file, down, cl, cl_pos, sv_size, sv_pos, cl_size, cl_got>>
    /\ UNCHANGED <<server, frame, client>>

\* SERVER.py lines 100-104 (the error frame), then line 150 again: the read
\* of the next opcode.  It returns what is next in the stream: bytes of the
\* upload that store_file has not read, or, when there are none and the
\* client is through with its upload, the opcode of the client's next
\* command ("aborted": the connection is in step and the command is served).
ServerAfterAbort ==
    /\ sv = "store_err"
    /\ up # <<>> \/ cl = "put_resp"
    /\ IF up = <<>>
       THEN sv' = "aborted" /\ cl' = "done"
       ELSE sv' = "failed" /\ cl' = cl
    /\ UNCHANGED <<src_file, srv_file, dst_file, up, down, cl_pos, sv_size, sv_got, sv_pos, cl_size, cl_got>>
    /\ UNCHANGED <<server, frame, client>>

\* SERVER.py lines 95-98, CLIENT.py line 111, then the user types /get f:
\* CLIENT.py lines 231-235 and SERVER.py lines 150-160.  Bytes of the upload
\* that store_file left unread are read as the next opcode, which then is
\* none of the five, and the request is not served.
GetRequest ==
    /\ sv = "store_resp" /\ cl = "put_resp"
    /\ cl' = "get_status"
    /\ sv' = IF up = <<>> THEN "get_stat" ELSE "failed"
    /\ UNCHANGED <<src_file, srv_file, dst_file, up, down, cl_pos, sv_size, sv_got, sv_pos, cl_size, cl_got>>
    /\ UNCHANGED <<server, frame, client>>

\* a send_file that lets the size header follow the status byte '0'
ServerSendNotFoundAndSize ==
    /\ sv = "get_stat"
    /\ srv_file = None
    /\ down' = down \o <<"0">> \o encode(ljust(str(0), BUFFER))
    /\ sv' = "done"
    /\ UNCHANGED <<src_file, srv_file, dst_file, up, cl, cl_pos, sv_size, sv_got, sv_pos, cl_size, cl_got>>
    /\ UNCHANGED <<server, frame, client>>

\* SERVER.py send_file lines 53 and 65-67: the file does not exist
ServerSendNotFound ==
    /\ sv = "get_stat"
    /\ srv_file = None
    /\ down' = down \o <<"0">>
    /\ sv' = "done"
    /\ UNCHANGED <<src_file, srv_file, dst_file, up, cl, cl_pos, sv_size, sv_got, sv_pos, cl_size, cl_got>>
    /\ UNCHANGED <<server, frame, client>>

\* SERVER.py send_file lines 53-59: the file exists
ServerSendSize ==
    /\ sv = "get_stat"
    /\ srv_file # None
    /\ down' = down \o <<"1">> \o encode(ljust(str(Len(srv_file)), BUFFER))
    /\ sv_pos' = 0
    /\ sv' = "get_loop"
    /\ UNCHANGED <<src_file, srv_file, dst_file, up, cl, cl_pos, sv_size, sv_got, cl_size, cl_got>>
    /\ UNCHANGED <<server, frame, client>>

\* SERVER.py send_file lines 61-64
ServerSendChunk ==
    /\ sv = "get_loop"
    /\ LET bytes_read == Chunk(srv_file, sv_pos)
       IN  IF bytes_read # <<>>
           THEN /\ down' = down \o bytes_read
                /\ sv_pos' = sv_pos + Len(bytes_read)
                /\ sv' = sv
           ELSE /\ sv' = "done"
                /\ UNCHANGED <<down, sv_pos>>
    /\ UNCHANGED <<src_file, srv_file, dst_file, up, cl, cl_pos, sv_size, sv_got, cl_size, cl_got>>
    /\ UNCHANGED <<server, frame, client>>

\* CLIENT.py store_file lines 121-123
ClientRecvStatus ==
    /\ cl = "get_status"
    /\ down # <<>>
    /\ down' = Tail(down)
    /\ cl' = IF Head(down) = "0" THEN "done" ELSE "get_size"
    /\ UNCHANGED <<src_file, srv_file, dst_file, up, sv, cl_pos, sv_size, sv_got, sv_pos, cl_size, cl_got>>
    /\ UNCHANGED <<server, frame, client>>

\* CLIENT.py store_file line 126 and the open of line 132
ClientRecvSize ==
    /\ cl = "get_size"
    /\ \E k \in RecvSplits(down, BUFFER) :
          LET size == ParseSize(Take(down, k))
          IN  /\ down' = Drop(down, k)
              /\ IF size.ok
                 THEN cl_size' = size.val /\ cl' = "get_loop"
                 ELSE cl_size' = 0 /\ cl' = "failed"
    /\ dst_file' = <<>>
    /\ cl_got' = 0
    /\ UNCHANGED <<src_file, srv_file, up, sv, cl_pos, sv_size, sv_got, sv_pos>>
    /\ UNCHANGED <<server, frame, client>>

\* CLIENT.py store_file lines 133-143 and the return at line 148
ClientRecvChunk ==
    /\ cl = "get_loop"
    /\ IF cl_got < cl_size
       THEN \E k \in RecvSplits(down, BUFFER) :
               /\ dst_file' = dst_file \o Take(down, k)
               /\ cl_got' = cl_got + k
               /\ down' = Drop(down, k)
               /\ cl' = cl
       ELSE /\ cl' = "done"
            /\ UNCHANGED <<dst_file, cl_got, down>>
    /\ UNCHANGED <<src_file, srv_file, up, sv, cl_pos, sv_size, sv_got, sv_pos, cl_size>>
    /\ UNCHANGED <<server, frame, client>>

\* the opcode execute_command writes for the next command the user types
NextOpcode == encode(<<"/", "d", "i", "r">>)

\* CLIENT.py: store_file has returned (line 148), handle_commands is back at
\* its prompt and the user types the next command while the exchange before
\* it has not ended clean: execute_command writes its opcode (line 242).
\* The commands typed after a clean exchange are StartStore and StartGet.
ClientNextCommand ==
    /\ cl = "done"
    /\ ~(sv \in {"done", "aborted"} /\ up = <<>> /\ down = <<>>)
    /\ up' = up \o NextOpcode
    /\ cl' = "ahead"
    /\ UNCHANGED <<src_file, srv_file, dst_file, down, sv, cl_pos, sv_size, sv_got, sv_pos, cl_size, cl_got>>
    /\ UNCHANGED <<server, frame, client>>

NextTransfer ==
    \/ \E content \in TransferFiles : StartStore(content)
    \/ ClientNextCommand
    \/ \E local \in LocalBefore : StartGet(local)
    \/ ServerSendNotFound
    \/ ClientSendSize
    \/ ClientSendChunk
    \/ ServerRecvSize
    \/ ServerRecvChunk
    \/ ServerStoreFail
    \/ ServerAfterAbort
    \/ GetRequest
    \/ ServerSendSize
    \/ ServerSendChunk
    \/ ClientRecvStatus
    \/ ClientRecvSize
    \/ ClientRecvChunk

SpecTransfer == Init /\ [][NextTransfer]_vars

(* ------------------------------ the client ---------------------------- *)
\* the client's working directory: its directories and its files
LocalDirs == {<<"d">>}
LocalFiles == {<<"a">>, <<"d", "/", "a">>}

\* the names the user may type after /store and /get: a file, a name of
\* nothing, a directory, a path into the directory
Filenames == {<<"a">>, <<"n">>, <<"d">>, <<"d", "/", "a">>}

\* str.startswith on the first words of the commands the user may type
startswith(w, p) == w = p \/ <<w, p>> \in {<<"/registerx", "/register">>, <<"/storex", "/store">>, <<"/getx", "/get">>}

\* the handles the user may ask for
UserHandles == {<<"a">>, <<"b">>, <<"eacute">>}

\* what the user may type, split at the first space: /join with an address
\* that is good ("g") or bad ("x"), and the commands of the session
UserCommands ==
    {<<"/join">>, <<"/join", <<"g">>>>, <<"/join", <<"x">>>>, <<"/leave">>, <<"/?">>, <<"/dir">>,
     <<"/bogus">>, <<"/register">>, <<"/registerx", <<"a">>>>, <<"/store">>,
     <<"/storex", <<"a">>>>, <<"/getx", <<"a">>>>}
    \cup {<<"/register", h>> : h \in UserHandles}
    \cup {<<"/store", f>> : f \in Filenames} \cup {<<"/get", f>> : f \in Filenames}

\* os.path.basename: what follows the last separator
RECURSIVE basename(_)
basename(path) ==
    IF path = <<>> THEN <<>>
    ELSE IF path[Len(path)] = "/" THEN <<>>
    ELSE LET head == basename(SubSeq(path, 1, Len(path) - 1))
         IN  IF Len(path) > 1 /\ path[Len(path) - 1] = "/" THEN <<path[Len(path)]>>
             ELSE head \o <<path[Len(path)]>>

\* is_filename with the test of the path separator left out
is_filename_any_path(filename) == filename \notin LocalDirs

\* CLIENT.py lines 67-73
is_filename(filename) == basename(filename) = filename /\ filename \notin LocalDirs

\* what execute_command returns and writes: [reg, wrote]
Done(r, w) == [reg |-> r, wrote |-> w]

\* the three writes that open /register, /store and /get (e.g. lines 172-174)
Request(verb, arg) == <<<<verb>>, encode_to_bytes(arg), encode(arg)>>

\* an execute_command whose last branch ("Command not found") returns None
\* in place of the handle it was given
execute_command_resets(r, command, status, content) ==
    LET verb == command[1]
        parts == Len(command)
    IN  IF startswith(verb, "/register")
        THEN IF r # None THEN Done(r, <<>>)
             ELSE IF parts < 2 THEN Done(None, <<>>)
             ELSE Done(IF status = "1" THEN command[2] ELSE None, Request(verb, command[2]))
        ELSE IF startswith(verb, "/store")
        THEN IF r = None THEN Done(None, <<>>)
             ELSE IF parts < 2 THEN Done(r, <<>>)
             ELSE IF command[2] \notin LocalFiles \cup LocalDirs THEN Done(r, <<>>)
             ELSE IF ~is_filename(command[2]) THEN Done(r, <<>>)
             ELSE Done(r, Request(verb, command[2])
                          \o <<encode(ljust(str(Len(content)), BUFFER)), content>>)
        ELSE IF startswith(verb, "/get")
        THEN IF r = None THEN Done(None, <<>>)
             ELSE IF parts < 2 THEN Done(r, <<>>)
             ELSE IF ~is_filename(command[2]) THEN Done(r, <<>>)
             ELSE Done(r, Request(verb, command[2]))
        ELSE IF command = <<"/dir">>
        THEN IF r = None THEN Done(None, <<>>) ELSE Done(r, <<<<"/dir">>>>)
        ELSE IF command = <<"/leave">>
        THEN Done(None, <<<<"/leave">>>>)
        ELSE Done(None, <<>>)

\* CLIENT.py lines 150-254; `status` is the byte the server answers a
\* /register with, `content` what the file to upload holds
execute_command(r, command, status, content) ==
    LET verb == command[1]
        parts == Len(command)
    IN  IF startswith(verb, "/register")
        THEN IF r # None THEN Done(r, <<>>)
             ELSE IF parts < 2 THEN Done(None, <<>>)
             ELSE Done(IF status = "1" THEN command[2] ELSE None, Request(verb, command[2]))
        ELSE IF startswith(verb, "/store")
        THEN IF r = None THEN Done(None, <<>>)
             ELSE IF parts < 2 THEN Done(r, <<>>)
             ELSE IF command[2] \notin LocalFiles \cup LocalDirs THEN Done(r, <<>>)
             ELSE IF ~is_filename(command[2]) THEN Done(r, <<>>)
             ELSE Done(r, Request(verb, command[2])
                          \o <<encode(ljust(str(Len(content)), BUFFER)), content>>)
        ELSE IF startswith(verb, "/get")
        THEN IF r = None THEN Done(None, <<>>)
             ELSE IF parts < 2 THEN Done(r, <<>>)
             ELSE IF ~is_filename(command[2]) THEN Done(r, <<>>)
             ELSE Done(r, Request(verb, command[2]))
        ELSE IF command = <<"/dir">>
        THEN IF r = None THEN Done(None, <<>>) ELSE Done(r, <<<<"/dir">>>>)
        ELSE IF command = <<"/leave">>
        THEN Done(None, <<<<"/leave">>>>)
        ELSE Done(r, <<>>)

\* a gate that hands every command that is no /join to execute_command
GateOpen(command, on) ==
    IF startswith(command[1], "/join") THEN (IF on THEN "joined" ELSE "join") ELSE "execute"

\* the branch handle_commands takes (lines 267-318; /exit is not typed)
Gate(command, on) ==
    IF startswith(command[1], "/join") /\ ~on THEN "join"
    ELSE IF startswith(command[1], "/join") /\ on THEN "joined"
    ELSE IF command = <<"/?">> THEN "help"
    ELSE IF ~on /\ command = <<"/leave">> THEN "not_connected"
    ELSE IF on THEN "execute"
    ELSE "refused"

\* one turn of handle_commands' loop, lines 264-318.  `connects` says whether
\* the server accepts the connection of a /join.
handle_commands(command, connects, status, content) ==
    LET branch == Gate(command, active)
        out == execute_command(c_reg, command, status, content)
    IN  /\ CASE branch = "join" ->
                  /\ active' = (Len(command) = 2 /\ command[2] = <<"g">> /\ connects)
                  /\ c_conn' = IF active' THEN c_conn + 1 ELSE c_conn
                  /\ c_reg' = c_reg
                  /\ c_ev' = [cmd |-> command, wrote |-> <<>>]
             [] branch = "execute" ->
                  /\ c_reg' = out.reg
                  /\ c_ev' = [cmd |-> command, wrote |-> out.wrote]
                  /\ IF out.reg = None /\ command = <<"/leave">>
                     THEN active' = FALSE /\ c_conn' = c_conn - 1
                     ELSE UNCHANGED <<active, c_conn>>
             [] OTHER ->
                  /\ c_ev' = [cmd |-> command, wrote |-> <<>>]
                  /\ UNCHANGED <<active, c_reg, c_conn>>
        /\ UNCHANGED <<server, frame, transfer>>

NextClient ==
    \E command \in UserCommands, connects \in BOOLEAN, status \in {"0", "1"} :
        \E content \in {<<>>, <<"a">>} : handle_commands(command, connects, status, content)

SpecClient == Init /\ [][NextClient]_vars

(* ------------- one client session and the server's handler ------------ *)
\* The client of CLIENT.py on connection 1: its commands go through
\* execute_command, its writes are the units of the stream f_wire, and the
\* handler reads them as handle_client and recv_data do, with f_rd as its
\* place in the reads of lines 150-153.  Other connections are seen through
\* what they do to the registry.

\* what the user types in a session: /register with a handle of one and of
\* two characters, without one, with a longer first word; /leave; a command
\* that is none of the five
SessionCommands ==
    {<<"/register", <<"a">>>>, <<"/register", <<"a", "b">>>>, <<"/register">>,
     <<"/registerx", <<"a">>>>, <<"/leave">>, <<"/bogus">>}

\* the handle another connection registers and releases
OtherHandle == <<"a">>

\* handle_commands lines 267-281 with a good address, and __main__ of
\* SERVER.py lines 192-197: connect, accept, and the handler at line 150
Join ==
    /\ ~active
    /\ pc[1] = "closed"
    /\ active' = TRUE
    /\ c_conn' = c_conn + 1
    /\ c_reg' = c_reg
    /\ c_ev' = [cmd |-> <<"/join", <<"g">>>>, wrote |-> <<>>]
    /\ pc' = [pc EXCEPT ![1] = "recv_op"]
    /\ reg' = [reg EXCEPT ![1] = None]
    /\ peer' = [peer EXCEPT ![1] = "open"]
    /\ ev' = Quiet
    /\ f_text' = <<>> /\ f_wire' = <<>> /\ f_wr' = "done" /\ f_rd' = "opcode"
    /\ f_len' = 0 /\ f_data' = <<>> /\ f_op' = "" /\ f_req' = <<>>
    /\ UNCHANGED <<registers, files, data, filesize, received, fpos>>
    /\ UNCHANGED transfer

\* handle_commands lines 302-311 and execute_command up to its first
\* sendall (line 172 or 248): a command rejected locally is over at once,
\* /leave is over with its write and the close, and /register goes on to
\* write its frame (SendArgHeader, SendPayload) and to read the status
Command(command) ==
    /\ active
    /\ pc[1] # "closed"
    /\ c_ev.wrote = <<>> /\ f_wr = "done"
    /\ Gate(command, active) = "execute"
    /\ LET out == execute_command(c_reg, command, "0", <<>>)
       IN  IF out.wrote = <<>>
           THEN /\ c_reg' = out.reg
                /\ c_ev' = [cmd |-> command, wrote |-> <<>>]
                /\ UNCHANGED <<active, c_conn>>
                /\ UNCHANGED frame
           ELSE IF command = <<"/leave">>
           THEN /\ c_reg' = None
                /\ active' = FALSE
                /\ c_conn' = c_conn - 1
                /\ c_ev' = [cmd |-> command, wrote |-> <<>>]
                /\ f_wire' = f_wire \o <<"/leave">>
                /\ f_op' = "/leave"
                /\ UNCHANGED <<f_text, f_wr, f_rd, f_len, f_data, f_req>>
           ELSE /\ c_ev' = [cmd |-> command, wrote |-> out.wrote]
                /\ f_op' = command[1]
                /\ f_text' = command[2]
                /\ f_wire' = f_wire \o <<command[1]>>
                /\ f_wr' = "header"
                /\ UNCHANGED <<active, c_reg, c_conn>>
                /\ UNCHANGED <<f_rd, f_len, f_data, f_req>>
    /\ UNCHANGED <<server, transfer>>

\* SERVER.py lines 150-153 and recv_data: one recv of the handler
ServerRecv ==
    /\ pc[1] = "recv_op"
    /\ RecvOpcode \/ RecvHeader \/ RecvPayload

\* a recv of the handler after the client has closed and everything it
\* wrote has been read: b"", which int() refuses at line 40 and which is
\* the payload at line 41
ServerEof ==
    /\ pc[1] = "recv_op"
    /\ ~active /\ f_wire = <<>>
    /\ f_rd \in {"opcode", "header", "payload"}
    /\ IF f_rd = "payload" THEN f_rd' = "done" /\ f_data' = <<>>
       ELSE IF f_rd = "header" THEN f_rd' = "failed" /\ f_data' = f_data
       ELSE f_rd' = "header" /\ f_data' = f_data
    /\ f_req' = IF f_rd = "opcode" THEN <<>> ELSE f_req
    /\ UNCHANGED <<f_text, f_wire, f_wr, f_len, f_op>>
    /\ UNCHANGED <<server, transfer, client>>

\* SERVER.py lines 158-172 for the request that has been read: the match,
\* with the decode of the argument in the case it selects, or the break of
\* line 172 on the ValueError of recv_data
Dispatch ==
    /\ pc[1] = "recv_op"
    /\ f_rd \in {"done", "failed"}
    /\ LET request == IF Len(f_req) = 1 THEN f_req[1] ELSE "garbled"
           text == decode(f_data)
       IN  /\ ev' = Event(1, request, <<>>, <<>>)
           /\ IF f_rd = "failed"
              THEN Goto(1, "exit")
              ELSE IF request \in {"/register", "/get", "/store"}
              THEN IF text.ok
                   THEN /\ pc' = [pc EXCEPT ![1] = MatchTarget(request)]
                        /\ Locals(1, text.val, 0, 0, 0)
                   ELSE Goto(1, "exit")
              ELSE Goto(1, MatchTarget(request))
    /\ f_rd' = "opcode"
    /\ f_req' = <<>>
    /\ UNCHANGED <<f_text, f_wire, f_wr, f_len, f_data, f_op>>
    /\ UNCHANGED <<registers, files, reg, peer>>
    /\ UNCHANGED <<transfer, client>>

\* execute_command lines 176-185: recv(1) returns the status byte the
\* handler sent, or b"" when the handler has closed the connection
Response ==
    /\ active
    /\ c_ev.wrote # <<>> /\ f_wr = "done"
    /\ \/ /\ ev.conn = 1 /\ ev.sent # <<>>
          /\ c_reg' = execute_command(c_reg, c_ev.cmd, ev.sent[1], <<>>).reg
          /\ ev' = Quiet
       \/ /\ pc[1] = "closed"
          /\ c_reg' = execute_command(c_reg, c_ev.cmd, "", <<>>).reg
          /\ ev' = ev
    /\ c_ev' = [cmd |-> c_ev.cmd, wrote |-> <<>>]
    /\ UNCHANGED <<active, c_conn>>
    /\ UNCHANGED <<registers, files, pc, reg, peer, data, filesize, received, fpos>>
    /\ UNCHANGED <<frame, transfer>>

\* the handler of another connection registers OtherHandle (lines 129-135)
OtherRegisters ==
    /\ ~InList(OtherHandle, registers)
    /\ registers' = Append(registers, OtherHandle)
    /\ UNCHANGED <<files, pc, reg, peer, data, filesize, received, fpos, ev>>
    /\ UNCHANGED <<frame, transfer, client>>

\* and releases it at its exit (lines 175-176)
OtherLeaves ==
    /\ InList(OtherHandle, registers)
    /\ \A c \in Conns : reg[c] # OtherHandle
    /\ registers' = RemoveAt(registers, FirstIndex(registers, OtherHandle))
    /\ UNCHANGED <<files, pc, reg, peer, data, filesize, received, fpos, ev>>
    /\ UNCHANGED <<frame, transfer, client>>

\* the steps the two programs take by themselves
SessionRuns ==
    \/ SendArgHeader \/ SendPayload
    \/ ServerRecv \/ ServerEof \/ Dispatch
    \/ RegCheck(1) \/ RegInsert(1) \/ RegSend(1)
    \/ Exit(1)
    \/ Response

NextSession ==
    \/ Join
    \/ \E command \in SessionCommands : Command(command)
    \/ SessionRuns
    \/ OtherRegisters
    \/ OtherLeaves

SpecSession == Init /\ [][NextSession]_vars

\* SpecSession with both programs scheduled as long as they can take a step
FairSession == SpecSession /\ WF_vars(SessionRuns)

(* ------------------------------ claims -------------------------------- *)
\* connection c holds handle h
Holds(c, h) == Live(c) /\ reg[c] = h

\* connection c is between the append of h and the assignment of reg
Registering(c, h) == pc[c] \in {"reg_insert", "reg_send"} /\ data[c] = h

\* C1: at any time at most one live connection holds a given handle (also
\* when the handlers of two connections run register_client for the same
\* handle with their steps interleaved).
C1_AtMostOneHolder ==
    \A c, d \in Conns : (c # d /\ Live(c) /\ Live(d) /\ reg[c] # None) => reg[c] # reg[d]

\* C2: once a connection's handler has left its loop, no handle it put in
\* the registry remains there; stated for all connections at once: when no
\* handler is running, the registry is empty.
C2_ReleasedOnExit ==
    (\A c \in Conns : pc[c] = "closed") => registers = <<>>

\* C3: while connection a holds h, a /register h of another connection b is
\* answered as a duplicate; and once a's /leave has been processed (nobody
\* else holding or registering h) h is out of the registry, so that b's next
\* /register h is answered '1'.
C3_DuplicateThenFree ==
    [][\A a \in Conns : \A b \in Conns \ {a} :
          /\ (pc[b] = "reg_check" /\ Holds(a, data[b]) /\ pc'[b] # pc[b])
                => pc'[b] # "reg_insert"
          /\ (/\ pc[a] = "leave" /\ reg[a] # None /\ pc'[a] # pc[a]
              /\ \A d \in Conns \ {a} : ~Holds(d, reg[a]) /\ ~Registering(d, reg[a]))
                => ~InList(reg[a], registers')]_vars

C5_DisconnectDetected ==
    (pc[1] = "store_loop" /\ peer[1] # "open") ~> (pc[1] = "closed")

\* C6: an opcode that is none of the five closes the connection.
C6_UnknownOpcodeCloses ==
    [][\A c \in Conns :
          (pc[c] = "recv_op" /\ ev' # Quiet /\ ev'.conn = c /\ ev'.op \notin Opcodes)
              => pc'[c] = "exit"]_vars

\* C7: a frame header or an upload size header that is no non-negative
\* integer ends the request there: out of the loop, storage untouched.
C7_MalformedHeaderAborts ==
    [][\A c \in Conns :
          (ev'.conn = c /\ ev'.hdr # <<>> /\ ~HeaderOk(ev'.hdr))
              => (pc'[c] = "exit" /\ files' = files)]_vars

\* C8: the decimal value of the header that encode_to_bytes produces for a
\* text is the number of bytes of the payload written after it, also for
\* texts whose encoding is longer than their character count.
C8_HeaderIsByteLength ==
    (f_wr = "payload") => ParseSize(encode_to_bytes(f_text)) = [ok |-> TRUE, val |-> Len(encode(f_text))]

\* the text of the frame in flight has one byte per character
OneBytePerChar == Len(encode(f_text)) = Len(f_text)

\* C9: however the stream splits the bytes over the reads, recv_data returns
\* the payload that was written and consumes header and payload, no more and
\* no less (stated for texts of one byte per character, whose header is right).
C9_FrameRoundTrip ==
    OneBytePerChar =>
        /\ f_rd # "failed"
        /\ (f_wr = "done" /\ f_rd = "done") => (f_data = encode(f_text) /\ f_wire = <<>>)

\* C10: a file stored and then fetched on the same connection comes back
\* byte for byte, whatever its size and however the reads split the stream.
C10_StoreGetRoundTrip ==
    (cl = "done" /\ sv = "done" /\ srv_file # None) => dst_file = src_file

\* C11: a /get of a name the server's directory does not hold is answered
\* with the one byte '0' and nothing after it; the client reads that byte,
\* leaves its own directory as it was and returns; both sides are then ready
\* for the next command with nothing left in the stream.
C11_NotFound ==
    [][/\ (sv = "get_stat" /\ srv_file = None /\ sv' # sv)
             => (down' = down \o <<"0">> /\ sv' = "done" /\ srv_file' = None)
       /\ (cl = "get_status" /\ srv_file = None /\ cl' # cl)
             => (cl' = "done" /\ dst_file' = dst_file /\ down' = <<>> /\ sv = "done")]_vars

\* the not-found answer has been read and the client's file of that name is still there
C11_Witness ==
    /\ cl = "done" /\ sv = "done"
    /\ srv_file = None
    /\ dst_file = <<"b">>
    /\ down = <<>>

\* a name with a path separator in it, or the name of a directory
RejectedName(f) == (\E i \in 1..Len(f) : f[i] = "/") \/ f \in LocalDirs

\* C12: a /store or /get whose filename has a path separator in it or names
\* a directory writes nothing to the socket and leaves the handle as it was.
C12_FilenameRejected ==
    [][(/\ Len(c_ev'.cmd) = 2
        /\ c_ev'.cmd[1] \in {"/store", "/get"}
        /\ RejectedName(c_ev'.cmd[2]))
          => (c_ev'.wrote = <<>> /\ c_reg' = c_reg)]_vars

\* a registered, connected user has asked for a path into a directory and
\* nothing was written
C12_Witness ==
    /\ active
    /\ c_reg = <<"a">>
    /\ c_ev = [cmd |-> <<"/get", <<"d", "/", "a">>>>, wrote |-> <<>>]

\* the command is a /join
IsJoin(command) == command # <<>> /\ startswith(command[1], "/join")

\* C16: while the client is not connected no command writes to a socket; a
\* /join while connected opens no second connection; a /leave while connected
\* writes the opcode, closes the connection and drops the handle; the client
\* gets connected by a /join only, and then has no handle, so that a
\* /register is sent to the server again.
C16_LifecycleGate ==
    [][/\ ~active => c_ev'.wrote = <<>>
       /\ (active /\ IsJoin(c_ev'.cmd)) => (c_conn' = c_conn /\ active')
       /\ c_conn' <= 1 /\ (active' <=> c_conn' = 1)
       /\ (active /\ c_ev'.cmd = <<"/leave">>)
             => (~active' /\ c_reg' = None /\ c_conn' = 0 /\ c_ev'.wrote = <<<<"/leave">>>>)
       /\ (~active /\ active') => (IsJoin(c_ev'.cmd) /\ c_reg' = None)
       /\ (active /\ c_reg = None /\ Len(c_ev'.cmd) = 2 /\ c_ev'.cmd[1] = "/register")
             => c_ev'.wrote = Request("/register", c_ev'.cmd[2])]_vars

\* the client has left: not connected, no handle, the opcode written
C16_Witness ==
    /\ ~active
    /\ c_conn = 0
    /\ c_reg = None
    /\ c_ev = [cmd |-> <<"/leave">>, wrote |-> <<<<"/leave">>>>]

\* a filename that is one path component and not the storage directory itself
Confined(name) == name # <<>> /\ \A i \in 1..Len(name) : name[i] # "/"

\* C13: the server stats, opens, reads or writes a path only for a filename
\* that is one path component and names no directory.
C13_FilenameConfined ==
    [][\A c \in Conns :
          (/\ pc[c] \in {"get_stat", "get_read", "store_open", "store_loop"}
           /\ (pc'[c] # pc[c] \/ files' # files \/ fpos'[c] # fpos[c] \/ received'[c] # received[c]))
              => Confined(data[c])]_vars

\* C18: the answer to /dir is the sentinel exactly when the storage directory
\* holds no file, and a file whose /store has just been confirmed is among
\* the names a /dir lists from then on.
C18_DirectoryListing ==
    [][\A c \in Conns :
          /\ (pc[c] = "dir" /\ pc'[c] = "recv_op")
                => (ev'.sent = Frame(DirMessage(<<>>)) <=> StorageNames(files) = {})
          /\ \A f \in StorePayloads :
                (ev' = Event(c, "", <<>>, Frame(Uploaded(reg[c], f))))
                   => f \in StorageNames(files')]_vars

\* C14: after an I/O failure in store_file (the size header having been
\* read whole, so that the stream holds file bytes only), the next opcode
\* the server reads is the client's next one.
C14_AbortKeepsInStep ==
    [][(sv = "store_err" /\ Len(up) + sv_got = cl_pos /\ sv' # sv) => sv' = "aborted"]_vars


\* send_file has bytes of its response yet to write
ResponseDue == sv = "get_stat" \/ (sv = "get_loop" /\ sv_pos < Len(srv_file))

\* C15: the client writes a new opcode only when it has read the whole
\* response of the command before: the server has written all of it and
\* none of it is left in the stream.
C15_ClientReadsWholeResponse ==
    [][(cl = "done" /\ cl' # "done") => (down = <<>> /\ ~ResponseDue)]_vars

\* the handler of connection c ends in this step: by the loop's exit and
\* close(), or by an exception raised out of handle_client
Terminates(c) == Live(c) /\ ~Live(c)'

\* connection d is as it was: its handler's position and locals, its
\* session's handle, its socket, and the handle's entry in the registry
Untouched(d) ==
    /\ pc'[d] = pc[d] /\ reg'[d] = reg[d] /\ peer'[d] = peer[d]
    /\ data'[d] = data[d] /\ fpos'[d] = fpos[d]
    /\ filesize'[d] = filesize[d] /\ received'[d] = received[d]
    /\ (Live(d) /\ InList(reg[d], registers)) => InList(reg[d], registers')

\* C17: when the handler of one connection ends, by whatever path, every
\* other connection keeps its session state and its registry entry, the
\* stored files are as they were, and a connection the listener could
\* accept before it can accept still.
C17_FailureIsolation ==
    [][\A c, d \in Conns :
         (c # d /\ Terminates(c)) => (Untouched(d) /\ files' = files)]_vars

\* one handler has ended by an error nothing catches while the other
\* connection is live and registered
C17_Witness ==
    \E c, d \in IsoConns :
        /\ c # d
        /\ pc[c] = "dead"
        /\ Live(d) /\ Truthy(reg[d]) /\ InList(reg[d], registers)

\* C19: when send_file has streamed the file and returns, the number of
\* bytes it has sent after the size header is the size it announced.
C19_DownloadLength ==
    [][\A c \in Conns :
         (pc[c] = "get_read" /\ pc'[c] = "recv_op") => fpos[c] = filesize[c]]_vars

\* C20: the read of the opcode returns the token the client wrote and
\* nothing of the frame written after it, however the stream groups the
\* client's writes.
C20_OpcodeReadBoundary ==
    (f_op # "" /\ f_rd # "opcode") => f_req = <<f_op>>

\* C21: the opcode token a command writes to the socket, if it writes one,
\* is one of /register, /store, /get, /dir, /leave.
C21_KnownOpcodesOnly ==
    c_ev.wrote # <<>> => \E op \in Opcodes : c_ev.wrote[1] = <<op>>

\* the command line is one that execute_command rejects without a request:
\* an argument is missing, the filename is rejected or names no local file,
\* the user is not registered, or is registered already, or the command is
\* none of the five
RejectedLocally(command, r) ==
    LET verb == command[1]
        file == startswith(verb, "/store") \/ startswith(verb, "/get")
    IN  \/ (file \/ startswith(verb, "/register")) /\ Len(command) < 2
        \/ file /\ Len(command) = 2 /\ RejectedName(command[2])
        \/ startswith(verb, "/store") /\ Len(command) = 2 /\ command[2] \notin LocalFiles \cup LocalDirs
        \/ (file \/ command = <<"/dir">>) /\ r = None
        \/ startswith(verb, "/register") /\ r # None
        \/ ~file /\ ~startswith(verb, "/register") /\ command \notin {<<"/dir">>, <<"/leave">>}

\* C23: a command that execute_command rejects locally returns the handle it
\* was given, leaves the client connected and writes nothing to the socket.
C23_RejectedLeavesSession ==
    [][(active /\ Gate(c_ev'.cmd, active) = "execute" /\ RejectedLocally(c_ev'.cmd, c_reg))
          => (c_reg' = c_reg /\ active' /\ c_conn' = c_conn /\ c_ev'.wrote = <<>>)]_vars

\* a registered, connected user has typed a command that is none of the five
C23_Witness ==
    /\ active
    /\ c_reg = <<"a">>
    /\ c_ev = [cmd |-> <<"/bogus">>, wrote |-> <<>>]

\* C25: the registry never holds the empty string and no session holds it
\* as its handle.
C25_NoEmptyHandle ==
    /\ ~InList(<<>>, registers)
    /\ \A c \in Conns : reg[c] # <<>>

\* C26: a session's handle, when it has one, is in the registry list, and a
\* handler that has left its loop gets through registers.remove(reg) to
\* close(), also when two sessions hold the same handle.
C26_RemovalNeverFails ==
    [][\A c \in Conns :
         /\ (reg'[c] # None) => InList(reg'[c], registers')
         /\ (pc[c] \in {"exit", "leave"} /\ pc'[c] # pc[c]) => pc'[c] = "closed"]_vars

\* two sessions hold the same handle, the list holds it twice, and one of
\* them has left its loop and is at registers.remove(reg)
C26_Witness ==
    \E c, d \in Conns :
        /\ c # d
        /\ pc[c] \in {"exit", "leave"} /\ Live(d)
        /\ Truthy(reg[c]) /\ reg[c] = reg[d]
        /\ registers = <<reg[c], reg[c]>>

\* the handler of connection c takes this step
Steps(c) ==
    \/ pc'[c] # pc[c] \/ data'[c] # data[c] \/ filesize'[c] # filesize[c]
    \/ received'[c] # received[c] \/ fpos'[c] # fpos[c]

\* the stored file `name` is there as it was
SameFile(name) == name \in DOMAIN files' /\ files'[name] = files[name]

\* C24: a step of /store with filename f leaves every stored file of another
\* name and the registry as they were; the steps of /get and /dir leave all
\* stored files and the registry as they were.
C24_StorageIndependence ==
    [][\A c \in Conns :
         /\ (Steps(c) /\ pc[c] \in {"store_size", "store_open", "store_loop", "store_resp", "store_err"})
               => /\ registers' = registers
                  /\ \A name \in DOMAIN files \ {data[c]} : SameFile(name)
         /\ (Steps(c) /\ pc[c] \in {"get_stat", "get_read", "dir"})
               => (registers' = registers /\ files' = files)]_vars

\* the client has written a request and is in the read of its response
Outstanding == active /\ c_ev.wrote # <<>>

\* C22: a request the client has written gets its response: the read the
\* client is in comes to its end.
C22_RequestAnswered == Outstanding ~> ~Outstanding

\* C27: when a command of the client is over and the handler is back at
\* the read of the next opcode, the handle the client holds is the one the
\* handler holds.
C27_HandleAgreement ==
    (active /\ c_ev.wrote = <<>> /\ pc[1] = "recv_op") => c_reg = reg[1]
====
